---------------------------- MODULE Spec2Model ----------------------------
(***************************************************************************)
(* Floorplan (src/src/python/io/fp_io.py): the .fp document and its        *)
(* boundary queries.  A Floorplan holds a vertex array, a triangle array   *)
(* and per-room lists of triangle indices; compute_boundary_edges_for      *)
(* extracts the directed edges without a reverse, and                      *)
(* compute_oriented_boundary_for walks them into loops.                    *)
(*                                                                         *)
(* Python lists are sequences (index k of the code is index k+1 here), a   *)
(* tuple (i,j) is <<i,j>>, a dict is a function on its keys.  An exception *)
(* ends the call with pc = "raised" and its name in exc.                   *)
(*                                                                         *)
(* Spec runs the boundary queries on loaded documents; ReadSpec runs       *)
(* read() on files, line by line, and the floorplan-wide queries on what   *)
(* it leaves behind; QuerySpec is Spec with compute_bounds; FairSpec is    *)
(* Spec with the loops of a call going on while they can; ConcSpec runs    *)
(* the queries of two threads on one document.                             *)
(***************************************************************************)
EXTENDS Integers, Sequences, FiniteSets

VARIABLES
    res,            \* self.res
    num_verts,      \* self.num_verts
    num_tris,       \* self.num_tris
    num_rooms,      \* self.num_rooms
    room_min_z,     \* self.room_min_z: a list or a float (PyList, PyFloat)
    room_max_z,     \* self.room_max_z: a list or a float (PyList, PyFloat)
    content,        \* read: content, the lines of the file, each line split
    offset,         \* read: offset
    i,              \* read: the loop variable i
    before,         \* the fields as they were when read was called
    reads,          \* number of read calls made on the object
    peer,           \* the frame of a query call made by a second thread
    verts,          \* self.verts: list of (x,y)
    tris,           \* self.tris: list of (i,j,k)
    room_tris,      \* self.room_tris: list of lists of triangle indices
    pc,             \* position of the running call: idle, extract, outer, inner, done, raised,
                    \* and in read: read_header, read_verts, read_tris, read_rooms, read_done, read_raised
    op,             \* the public method that was called
    roomid,         \* the roomid argument of compute_room_*, -1 if none
    tri_inds,       \* the tri_inds argument of compute_*_for
    all_edges,      \* compute_oriented_boundary_for: all_edges (pending boundary edges)
    edge_map,       \* compute_oriented_boundary_for: edge_map
    boundary_list,  \* compute_oriented_boundary_for: boundary_list
    last,           \* compute_oriented_boundary_for: last
    open_walks,     \* indices (in boundary_list) of the walks whose inner while ended at line 324
    ret,            \* the value returned
    exc             \* the exception raised, "none" if none

\* the fields of the object
fields == <<res, num_verts, num_tris, num_rooms, verts, tris, room_tris,
            room_min_z, room_max_z>>
\* the frame of read
readvars == <<content, offset, i, before, reads>>
\* what the queries leave alone: the object, and the frame of read
docvars == <<fields, readvars, peer>>
locals == <<all_edges, edge_map, boundary_list, last, open_walks>>
vars == <<res, num_verts, num_tris, num_rooms, room_min_z, room_max_z,
          content, offset, i, before, reads, peer,
          verts, tris, room_tris, pc, op, roomid, tri_inds, all_edges, edge_map,
          boundary_list, last, open_walks, ret, exc>>

-----------------------------------------------------------------------------
(* Bounds *)

\* longest tri_inds list handed to compute_boundary_edges_for /
\* compute_oriented_boundary_for by a direct caller
MaxInds == 3

-----------------------------------------------------------------------------
(* Python list helpers *)

Range(s) == {s[n] : n \in DOMAIN s}

\* x in s
Contains(s, x) == \E n \in DOMAIN s : s[n] = x

\* number of occurrences of x in s
Count(s, x) == Cardinality({n \in DOMAIN s : s[n] = x})

\* s.remove(x): drops the first occurrence (the caller checks Contains)
RemoveFirst(s, x) ==
    LET n == CHOOSE n \in DOMAIN s : s[n] = x /\ \A m \in 1..(n-1) : s[m] # x
    IN  SubSeq(s, 1, n-1) \o SubSeq(s, n+1, Len(s))

\* s without its last element (s.pop() returns s[Len(s)])
Front(s) == SubSeq(s, 1, Len(s) - 1)

\* range(n)
PyRange(n) == [k \in 1..n |-> k - 1]

\* the lists over S of length at most n
SeqUpTo(S, n) == UNION {[1..k -> S] : k \in 0..n}

-----------------------------------------------------------------------------
(* The documents the queries run on *)

\* a Python value that is a list, and one that is a float: room_min_z and
\* room_max_z are bound to both kinds (lines 48, 124 and 140)
PyList(l) == [isList |-> TRUE, list |-> l, float |-> 0]
PyFloat(x) == [isList |-> FALSE, list |-> <<>>, float |-> x]

\* the fields of the object as one value
Fields ==
    [res |-> res, num_verts |-> num_verts, num_tris |-> num_tris,
     num_rooms |-> num_rooms, verts |-> verts, tris |-> tris,
     room_tris |-> room_tris, room_min_z |-> room_min_z,
     room_max_z |-> room_max_z]

\* lines 41-49: the empty structure
EmptyFields ==
    [res |-> -1, num_verts |-> 0, num_tris |-> 0, num_rooms |-> 0,
     verts |-> <<>>, tris |-> <<>>, room_tris |-> <<>>,
     room_min_z |-> PyList(<<>>), room_max_z |-> PyList(<<>>)]

\* no read is running
NoRead ==
    /\ content = <<>>
    /\ offset = 0
    /\ i = 0
    /\ before = EmptyFields
    /\ reads = 0

\* Floorplan(): the empty structure
EmptyFloorplan == [verts |-> <<>>, tris |-> <<>>, room_tris |-> <<>>]

\* the unit square as two counter-clockwise triangles, one room
SquareFloorplan ==
    [verts |-> << <<0,0>>, <<1,0>>, <<1,1>>, <<0,1>> >>,
     tris |-> << <<0,1,2>>, <<0,2,3>> >>,
     room_tris |-> << <<0,1>> >>]

\* two triangles sharing no vertex, a room each
DisjointFloorplan ==
    [verts |-> << <<0,0>>, <<2,0>>, <<0,2>>, <<5,5>>, <<7,5>>, <<5,7>> >>,
     tris |-> << <<0,1,2>>, <<3,4,5>> >>,
     room_tris |-> << <<0>>, <<1>> >>]

\* a triangular ring (triangles 0..5) around the triangle 3,4,5 (triangle 6);
\* all counter-clockwise.  Rooms: the ring, the middle, the ring listed in
\* two other orders, ring and middle together
RingFloorplan ==
    [verts |-> << <<0,0>>, <<8,0>>, <<0,8>>, <<2,2>>, <<4,2>>, <<2,4>> >>,
     tris |-> << <<0,1,4>>, <<0,4,3>>, <<1,2,5>>, <<1,5,4>>, <<2,0,3>>,
                 <<2,3,5>>, <<3,4,5>> >>,
     room_tris |-> << <<0,1,2,3,4,5>>, <<6>>, <<5,4,3,2,1,0>>,
                      <<2,5,0,3,1,4>>, <<6,0,1,2,3,4,5>> >>]

\* a square ring, counter-clockwise: outer corners 0..3, inner corners 4..7;
\* one room, and the same ring as a second room listed in another order
SquareRingFloorplan ==
    [verts |-> << <<0,0>>, <<6,0>>, <<6,6>>, <<0,6>>,
                  <<2,2>>, <<4,2>>, <<4,4>>, <<2,4>> >>,
     tris |-> << <<0,1,5>>, <<0,5,4>>, <<1,2,6>>, <<1,6,5>>,
                 <<2,3,7>>, <<2,7,6>>, <<3,0,4>>, <<3,4,7>> >>,
     room_tris |-> << <<0,1,2,3,4,5,6,7>>, <<7,2,5,0,3,6,1,4>> >>]

\* three triangles on the edge 0-1, two on the same side and one opposite,
\* and a fourth across 1-4-2
FinFloorplan ==
    [verts |-> << <<0,0>>, <<2,0>>, <<1,2>>, <<1,1>>, <<1,-1>> >>,
     tris |-> << <<0,1,2>>, <<0,1,3>>, <<1,0,4>>, <<1,4,2>> >>,
     room_tris |-> << <<0,1,2>>, <<0,1>>, <<0,1,2,3>> >>]

\* triangles over the four corners of the square: the four faces in both
\* windings, two of them rotated, and two degenerate ones
PoolFloorplan ==
    [verts |-> << <<0,0>>, <<1,0>>, <<1,1>>, <<0,1>> >>,
     tris |-> << <<0,1,2>>, <<0,2,3>>, <<0,3,1>>, <<1,3,2>>,
                 <<0,2,1>>, <<0,3,2>>, <<0,1,3>>, <<1,2,3>>,
                 <<1,2,0>>, <<2,3,0>>, <<1,0,0>>, <<2,2,2>> >>,
     room_tris |-> << <<0,1>>, <<2,3>>, <<0,1,5>> >>]

\* two counter-clockwise regions that meet in vertex 0 only: the triangles
\* (0,1,2) and (0,2,3) to the right, listed apart, and (0,4,5) to the left
BowtieFloorplan ==
    [verts |-> << <<0,0>>, <<2,-2>>, <<2,0>>, <<2,2>>, <<-2,2>>, <<-2,-2>> >>,
     tris |-> << <<0,1,2>>, <<0,4,5>>, <<0,2,3>> >>,
     room_tris |-> << <<0,1,2>>, <<0,2>>, <<1>> >>]

Documents == {EmptyFloorplan, SquareFloorplan, DisjointFloorplan,
              RingFloorplan, SquareRingFloorplan, FinFloorplan,
              PoolFloorplan, BowtieFloorplan}

-----------------------------------------------------------------------------
(* compute_boundary_edges_for *)

\* self.tris[ti] raises IndexError outside -len..len-1
ValidIndex(ti) == ti >= 0 - Len(tris) /\ ti < Len(tris)

\* self.tris[ti]
TriAt(ti) == tris[IF ti < 0 THEN Len(tris) + ti + 1 ELSE ti + 1]

\* lines 232-236 with the third edge of a triangle as (i,k), not (k,i)
EmittedEdgesThirdReversed(inds) ==
    [n \in 1..(3 * Len(inds)) |->
        LET t == TriAt(inds[((n - 1) \div 3) + 1])
            p == (n - 1) % 3
        IN  IF p = 0 THEN <<t[1], t[2]>>
            ELSE IF p = 1 THEN <<t[2], t[3]>>
            ELSE <<t[1], t[3]>>]

\* all_edges of compute_boundary_edges_for: (i,j), (j,k), (k,i) per triangle
EmittedEdges(inds) ==
    [n \in 1..(3 * Len(inds)) |->
        LET t == TriAt(inds[((n - 1) \div 3) + 1])
            p == (n - 1) % 3
        IN  IF p = 0 THEN <<t[1], t[2]>>
            ELSE IF p = 1 THEN <<t[2], t[3]>>
            ELSE <<t[3], t[1]>>]

\* line 242 looking for the edge itself a second time, not for its reverse
IsBoundaryEdgeSameWay(e, edges) == Count(edges, e) = 1

\* line 242 without the search for the reverse: every emitted edge is kept
IsBoundaryEdgeAlways(e, edges) == Contains(edges, e)

\* the check of line 242: the opposing edge is not in all_edges
IsBoundaryEdge(e, edges) == ~Contains(edges, <<e[2], e[1]>>)

\* boundary_edges: the emitted edges, in order, that pass the check
BoundaryEdges(edges) == SelectSeq(edges, LAMBDA e : IsBoundaryEdge(e, edges))

\* the outcome of compute_boundary_edges_for(inds)
BoundaryEdgesFor(inds) ==
    IF \E n \in DOMAIN inds : ~ValidIndex(inds[n])
    THEN [exc |-> "IndexError", ret |-> <<>>]
    ELSE [exc |-> "none", ret |-> BoundaryEdges(EmittedEdges(inds))]


-----------------------------------------------------------------------------
(* compute_oriented_boundary_for: the walk, one loop iteration per step *)

EmptyMap == [v \in {} |-> <<>>]

\* edge_map (lines 299-304): start vertex -> its outgoing edges, in list order
EdgeMapOf(edges) ==
    [v \in {e[1] : e \in Range(edges)} |->
        SelectSeq(edges, LAMBDA e : e[1] = v)]

\* the locals as control reaches the outer while (line 310)
WalkStart(edges) ==
    [pc |-> "outer", all_edges |-> edges, edge_map |-> EdgeMapOf(edges),
     boundary_list |-> <<>>, last |-> -1, open_walks |-> {},
     ret |-> <<>>, exc |-> "none"]

\* lines 312-320 taking the first pending edge (pop(0)) instead of the last
StartBoundaryFromFirst(s) ==
    LET e == s.all_edges[1]
    IN  [s EXCEPT !.pc = "inner",
                  !.all_edges = Tail(@),
                  !.boundary_list = Append(@, <<e[1], e[2]>>),
                  !.last = e[2],
                  !.edge_map[e[1]] = RemoveFirst(@, e)]

\* lines 312-320 without line 313: the boundary goes on in the list of the
\* one before
StartBoundarySameList(s) ==
    LET e == s.all_edges[Len(s.all_edges)]
        n == Len(s.boundary_list)
    IN  [s EXCEPT !.pc = "inner",
                  !.all_edges = Front(@),
                  !.boundary_list =
                      IF n = 0 THEN <<<<e[1], e[2]>>>>
                      ELSE [@ EXCEPT ![n] = @ \o <<e[1], e[2]>>],
                  !.last = e[2],
                  !.edge_map[e[1]] = RemoveFirst(@, e)]

\* lines 312-320 without the pop of line 312: the starting edge stays pending
StartBoundaryKeepsPending(s) ==
    LET e == s.all_edges[Len(s.all_edges)]
    IN  IF ~Contains(s.edge_map[e[1]], e)
        THEN [s EXCEPT !.pc = "raised", !.exc = "ValueError",
                       !.boundary_list = Append(@, <<e[1], e[2]>>),
                       !.last = e[2]]
        ELSE [s EXCEPT !.pc = "inner",
                       !.boundary_list = Append(@, <<e[1], e[2]>>),
                       !.last = e[2],
                       !.edge_map[e[1]] = RemoveFirst(@, e)]

\* lines 312-320 with line 313 assigning the new boundary to boundary_list
\* instead of appending it
StartBoundaryAssigns(s) ==
    LET e == s.all_edges[Len(s.all_edges)]
    IN  IF ~Contains(s.edge_map[e[1]], e)
        THEN [s EXCEPT !.pc = "raised", !.exc = "ValueError",
                       !.all_edges = Front(@),
                       !.boundary_list = << <<e[1], e[2]>> >>,
                       !.last = e[2]]
        ELSE [s EXCEPT !.pc = "inner",
                       !.all_edges = Front(@),
                       !.boundary_list = << <<e[1], e[2]>> >>,
                       !.last = e[2],
                       !.edge_map[e[1]] = RemoveFirst(@, e)]

\* lines 312-320: a new boundary from the last pending edge
StartBoundary(s) ==
    LET e == s.all_edges[Len(s.all_edges)]
    IN  IF ~Contains(s.edge_map[e[1]], e)
        THEN [s EXCEPT !.pc = "raised", !.exc = "ValueError",
                       !.all_edges = Front(@),
                       !.boundary_list = Append(@, <<e[1], e[2]>>),
                       !.last = e[2]]
        ELSE [s EXCEPT !.pc = "inner",
                       !.all_edges = Front(@),
                       !.boundary_list = Append(@, <<e[1], e[2]>>),
                       !.last = e[2],
                       !.edge_map[e[1]] = RemoveFirst(@, e)]

\* lines 327-337 without line 328: the followed edge stays pending
FollowEdgeKeepsPending(s) ==
    LET out == s.edge_map[s.last]
        e == out[Len(out)]
        n == Len(s.boundary_list)
        popped == [s EXCEPT !.edge_map[s.last] = Front(@)]
    IN  IF e[2] = s.boundary_list[n][1]
        THEN [popped EXCEPT !.pc = "outer", !.last = e[2]]
        ELSE [popped EXCEPT !.pc = "inner", !.last = e[2],
                            !.boundary_list[n] = Append(@, e[2])]

\* lines 327-337 with the vertex appended (line 337) before the test of line
\* 332: a closed boundary ends with its start vertex again
FollowEdgeAppendsStart(s) ==
    LET out == s.edge_map[s.last]
        e == out[Len(out)]
        n == Len(s.boundary_list)
        popped == [s EXCEPT !.edge_map[s.last] = Front(@)]
    IN  IF ~Contains(s.all_edges, e)
        THEN [popped EXCEPT !.pc = "raised", !.exc = "ValueError"]
        ELSE IF e[2] = s.boundary_list[n][1]
        THEN [popped EXCEPT !.pc = "outer",
                            !.all_edges = RemoveFirst(@, e),
                            !.last = e[2],
                            !.boundary_list[n] = Append(@, e[2])]
        ELSE [popped EXCEPT !.pc = "inner",
                            !.all_edges = RemoveFirst(@, e),
                            !.last = e[2],
                            !.boundary_list[n] = Append(@, e[2])]

\* lines 327-337 with line 332 comparing against the second vertex of the
\* boundary, not the first
FollowEdgeClosesAtSecond(s) ==
    LET out == s.edge_map[s.last]
        e == out[Len(out)]
        n == Len(s.boundary_list)
        popped == [s EXCEPT !.edge_map[s.last] = Front(@)]
    IN  IF ~Contains(s.all_edges, e)
        THEN [popped EXCEPT !.pc = "raised", !.exc = "ValueError"]
        ELSE IF e[2] = s.boundary_list[n][2]
        THEN [popped EXCEPT !.pc = "outer",
                            !.all_edges = RemoveFirst(@, e),
                            !.last = e[2]]
        ELSE [popped EXCEPT !.pc = "inner",
                            !.all_edges = RemoveFirst(@, e),
                            !.last = e[2],
                            !.boundary_list[n] = Append(@, e[2])]

\* lines 327-337: one edge followed from the last observed vertex
FollowEdge(s) ==
    LET out == s.edge_map[s.last]
        e == out[Len(out)]
        n == Len(s.boundary_list)
        popped == [s EXCEPT !.edge_map[s.last] = Front(@)]
    IN  IF ~Contains(s.all_edges, e)
        THEN [popped EXCEPT !.pc = "raised", !.exc = "ValueError"]
        ELSE IF e[2] = s.boundary_list[n][1]
        THEN [popped EXCEPT !.pc = "outer",
                            !.all_edges = RemoveFirst(@, e),
                            !.last = e[2]]
        ELSE [popped EXCEPT !.pc = "inner",
                            !.all_edges = RemoveFirst(@, e),
                            !.last = e[2],
                            !.boundary_list[n] = Append(@, e[2])]

\* line 324 is false: the walk stops where it stands, the boundary stays
\* in boundary_list as it is
EndWalk(s) ==
    [s EXCEPT !.pc = "outer",
              !.open_walks = @ \cup {Len(s.boundary_list)}]

\* line 310 as an if: the walk returns after its first boundary
WalkStepOneBoundary(s) ==
    IF s.pc = "outer"
    THEN IF Len(s.all_edges) > 0 /\ Len(s.boundary_list) = 0
         THEN StartBoundary(s)
         ELSE [s EXCEPT !.pc = "done", !.ret = s.boundary_list]
    ELSE IF s.last \notin DOMAIN s.edge_map
         THEN [s EXCEPT !.pc = "raised", !.exc = "KeyError"]
         ELSE IF Len(s.edge_map[s.last]) > 0
              THEN FollowEdge(s)
              ELSE EndWalk(s)

\* one iteration of the code from position s.pc
WalkStep(s) ==
    IF s.pc = "outer"
    THEN IF Len(s.all_edges) > 0
         THEN StartBoundary(s)
         ELSE [s EXCEPT !.pc = "done", !.ret = s.boundary_list]
    ELSE IF s.last \notin DOMAIN s.edge_map
         THEN [s EXCEPT !.pc = "raised", !.exc = "KeyError"]
         ELSE IF Len(s.edge_map[s.last]) > 0
              THEN FollowEdge(s)
              ELSE EndWalk(s)

RECURSIVE RunWalk(_)
RunWalk(s) == IF s.pc \in {"done", "raised"} THEN s ELSE RunWalk(WalkStep(s))

\* the outcome of compute_oriented_boundary_for(inds)
OrientedBoundaryFor(inds) ==
    LET b == BoundaryEdgesFor(inds)
    IN  IF b.exc # "none" THEN b
        ELSE LET s == RunWalk(WalkStart(b.ret))
             IN  [exc |-> s.exc, ret |-> s.ret]

-----------------------------------------------------------------------------
(* The state machine *)

BoundaryEdgeOps == {"compute_boundary_edges", "compute_room_boundary_edges",
                    "compute_boundary_edges_for"}
OrientedOps == {"compute_oriented_boundary", "compute_room_oriented_boundary",
                "compute_oriented_boundary_for"}

\* the frame of a query call that is not made
IdleFrame ==
    [pc |-> "idle", op |-> "none", roomid |-> -1, tri_inds |-> <<>>,
     all_edges |-> <<>>, edge_map |-> EmptyMap, boundary_list |-> <<>>,
     last |-> -1, open_walks |-> {}, ret |-> <<>>, exc |-> "none"]

NoLocals ==
    /\ all_edges = <<>>
    /\ edge_map = EmptyMap
    /\ boundary_list = <<>>
    /\ last = -1
    /\ open_walks = {}

\* the other fields of the document d: the empty structure's (lines 41-49),
\* or what read leaves from a file of resolution 1 whose counts are those of
\* its records and whose rooms have floor 0 and ceiling 3 (lines 74-77, 140,
\* 141)
Loaded(d) ==
    IF d = EmptyFloorplan
    THEN /\ res = EmptyFields.res
         /\ num_verts = 0
         /\ num_tris = 0
         /\ num_rooms = 0
         /\ room_min_z = PyList(<<>>)
         /\ room_max_z = PyList(<<>>)
    ELSE /\ res = 1
         /\ num_verts = Len(d.verts)
         /\ num_tris = Len(d.tris)
         /\ num_rooms = Len(d.room_tris)
         /\ room_min_z = PyFloat(0)
         /\ room_max_z = PyFloat(3)

Init ==
    /\ \E d \in Documents :
        /\ verts = d.verts
        /\ tris = d.tris
        /\ room_tris = d.room_tris
        /\ Loaded(d)
    /\ NoRead
    /\ peer = IdleFrame
    /\ pc = "idle"
    /\ op = "none"
    /\ roomid = -1
    /\ tri_inds = <<>>
    /\ NoLocals
    /\ ret = <<>>
    /\ exc = "none"

\* a call of method m (for room r, -1 if none) that reaches compute_*_for
\* with the list inds
Enter(m, r, inds) ==
    /\ pc = "idle"
    /\ pc' = "extract"
    /\ op' = m
    /\ roomid' = r
    /\ tri_inds' = inds
    /\ UNCHANGED <<docvars, locals, ret, exc>>

\* line 200
compute_boundary_edges ==
    Enter("compute_boundary_edges", -1, PyRange(Len(tris)))

\* line 214
compute_room_boundary_edges ==
    /\ pc = "idle"
    /\ \E r \in 0..(Len(room_tris) - 1) :
        Enter("compute_room_boundary_edges", r, room_tris[r + 1])

\* line 226, called by a user of the class
compute_boundary_edges_for ==
    /\ pc = "idle"
    /\ \E inds \in SeqUpTo(0..(Len(tris) - 1), MaxInds) :
        Enter("compute_boundary_edges_for", -1, inds)

\* lines 262-263: the method named there is not a method of the class
compute_oriented_boundary ==
    /\ pc = "idle"
    /\ pc' = "raised"
    /\ op' = "compute_oriented_boundary"
    /\ exc' = "AttributeError"
    /\ UNCHANGED <<docvars, roomid, tri_inds, locals, ret>>

\* line 278
compute_room_oriented_boundary ==
    /\ pc = "idle"
    /\ \E r \in 0..(Len(room_tris) - 1) :
        Enter("compute_room_oriented_boundary", r, room_tris[r + 1])

\* line 293, called by a user of the class
compute_oriented_boundary_for ==
    /\ pc = "idle"
    /\ \E inds \in SeqUpTo(0..(Len(tris) - 1), MaxInds) :
        Enter("compute_oriented_boundary_for", -1, inds)

\* lines 229-246, and for the oriented queries lines 296-307
ExtractBoundaryEdges ==
    /\ pc = "extract"
    /\ LET b == BoundaryEdgesFor(tri_inds)
       IN  IF b.exc # "none"
           THEN /\ pc' = "raised"
                /\ exc' = b.exc
                /\ UNCHANGED <<locals, ret>>
           ELSE IF op \in BoundaryEdgeOps
           THEN /\ pc' = "done"
                /\ ret' = b.ret
                /\ UNCHANGED <<locals, exc>>
           ELSE LET s == WalkStart(b.ret)
                IN  /\ pc' = s.pc
                    /\ all_edges' = s.all_edges
                    /\ edge_map' = s.edge_map
                    /\ boundary_list' = s.boundary_list
                    /\ last' = s.last
                    /\ open_walks' = s.open_walks
                    /\ UNCHANGED <<ret, exc>>
    /\ UNCHANGED <<docvars, op, roomid, tri_inds>>

Locals ==
    [pc |-> pc, all_edges |-> all_edges, edge_map |-> edge_map,
     boundary_list |-> boundary_list, last |-> last,
     open_walks |-> open_walks, ret |-> ret, exc |-> exc]

\* the locals after one iteration, the room's list losing the index the
\* iteration consumed an edge of
BecomesPoppingRoom(s) ==
    /\ pc' = s.pc
    /\ all_edges' = s.all_edges
    /\ edge_map' = s.edge_map
    /\ boundary_list' = s.boundary_list
    /\ last' = s.last
    /\ open_walks' = s.open_walks
    /\ ret' = s.ret
    /\ exc' = s.exc
    /\ room_tris' = IF roomid >= 0 /\ Len(room_tris[roomid + 1]) > 0
                    THEN [room_tris EXCEPT ![roomid + 1] = Front(@)]
                    ELSE room_tris
    /\ UNCHANGED <<res, num_verts, num_tris, num_rooms, verts, tris,
                   room_min_z, room_max_z, readvars, peer, op, roomid,
                   tri_inds>>

\* the locals after one iteration
Becomes(s) ==
    /\ pc' = s.pc
    /\ all_edges' = s.all_edges
    /\ edge_map' = s.edge_map
    /\ boundary_list' = s.boundary_list
    /\ last' = s.last
    /\ open_walks' = s.open_walks
    /\ ret' = s.ret
    /\ exc' = s.exc
    /\ UNCHANGED <<docvars, op, roomid, tri_inds>>

\* line 310 true: lines 312-320
OuterIteration ==
    /\ pc = "outer"
    /\ Len(all_edges) > 0
    /\ Becomes(WalkStep(Locals))

\* line 310 false: line 340
ReturnBoundaryList ==
    /\ pc = "outer"
    /\ Len(all_edges) = 0
    /\ Becomes(WalkStep(Locals))

\* line 324 true: lines 327-337
InnerIteration ==
    /\ pc = "inner"
    /\ last \in DOMAIN edge_map
    /\ Len(edge_map[last]) > 0
    /\ Becomes(WalkStep(Locals))

\* line 324 false
InnerExit ==
    /\ pc = "inner"
    /\ last \in DOMAIN edge_map
    /\ Len(edge_map[last]) = 0
    /\ Becomes(WalkStep(Locals))

\* line 324: last is no key of edge_map
InnerKeyError ==
    /\ pc = "inner"
    /\ last \notin DOMAIN edge_map
    /\ Becomes(WalkStep(Locals))

\* the caller has the result (or the exception); the object is idle again
Finish ==
    /\ pc \in {"done", "raised"}
    /\ pc' = "idle"
    /\ op' = "none"
    /\ roomid' = -1
    /\ tri_inds' = <<>>
    /\ all_edges' = <<>>
    /\ edge_map' = EmptyMap
    /\ boundary_list' = <<>>
    /\ last' = -1
    /\ open_walks' = {}
    /\ ret' = <<>>
    /\ exc' = "none"
    /\ UNCHANGED docvars

Next ==
    \/ compute_boundary_edges
    \/ compute_room_boundary_edges
    \/ compute_boundary_edges_for
    \/ compute_oriented_boundary
    \/ compute_room_oriented_boundary
    \/ compute_oriented_boundary_for
    \/ ExtractBoundaryEdges
    \/ OuterIteration
    \/ ReturnBoundaryList
    \/ InnerIteration
    \/ InnerExit
    \/ InnerKeyError
    \/ Finish

Spec == Init /\ [][Next]_vars

-----------------------------------------------------------------------------
(* read: the text of a .fp file                                            *)
(*                                                                         *)
(* A file is the list of its lines (splitlines, line 66); a line is the    *)
(* list of its tokens (split, lines 91, 109 and 130); a token is the list  *)
(* of its characters.  A header line is handed to float() and int() whole: *)
(* they strip the blanks around one token and refuse anything else.        *)

Digits == {"0", "1", "2", "3", "4", "5", "6", "7", "8", "9"}

DigitValue(ch) ==
    CASE ch = "0" -> 0 [] ch = "1" -> 1 [] ch = "2" -> 2 [] ch = "3" -> 3
      [] ch = "4" -> 4 [] ch = "5" -> 5 [] ch = "6" -> 6 [] ch = "7" -> 7
      [] ch = "8" -> 8 [] ch = "9" -> 9

IsDigits(s) == Len(s) > 0 /\ \A n \in DOMAIN s : s[n] \in Digits

RECURSIVE DigitsValue(_)
DigitsValue(s) ==
    IF Len(s) = 0 THEN 0
    ELSE 10 * DigitsValue(Front(s)) + DigitValue(s[Len(s)])

\* the token without its sign
Unsigned(t) == IF Len(t) > 0 /\ t[1] = "-" THEN Tail(t) ELSE t

\* int(t) does not raise ValueError: a sign and digits
IsIntLiteral(t) == IsDigits(Unsigned(t))

\* int(t)
IntOf(t) ==
    IF t[1] = "-" THEN 0 - DigitsValue(Unsigned(t)) ELSE DigitsValue(t)

\* float(t) does not raise ValueError: a sign, digits and at most one point,
\* with a digit on one side of it at least
IsFloatLiteral(t) ==
    LET u == Unsigned(t)
    IN  /\ \A n \in DOMAIN u : u[n] \in Digits \cup {"."}
        /\ Cardinality({n \in DOMAIN u : u[n] = "."}) <= 1
        /\ \E n \in DOMAIN u : u[n] \in Digits

\* float(t): the whole number written, or the pair of the whole part and
\* the digits after the point when these are not all zero
FloatOf(t) ==
    LET u == Unsigned(t)
        dots == {n \in DOMAIN u : u[n] = "."}
        point == IF dots = {} THEN Len(u) + 1 ELSE CHOOSE n \in dots : TRUE
        whole == DigitsValue(SubSeq(u, 1, point - 1))
        frac == SubSeq(u, point + 1, Len(u))
        signed == IF Len(t) > 0 /\ t[1] = "-" THEN 0 - whole ELSE whole
    IN  IF \A n \in DOMAIN frac : frac[n] = "0" THEN signed
        ELSE <<signed, frac>>

\* float(line) and int(line) of a header line (lines 74-77)
IsFloatLine(line) == Len(line) = 1 /\ IsFloatLiteral(line[1])
IsIntLine(line) == Len(line) = 1 /\ IsIntLiteral(line[1])

\* content[k] raises IndexError outside -len..len-1
HasLine(c, k) == k >= 0 - Len(c) /\ k < Len(c)

\* content[k]
LineAt(c, k) == c[IF k < 0 THEN Len(c) + k + 1 ELSE k + 1]

\* line 80 without the rooms in the sum
BodyTooShortWithoutRooms(c, nv, nt, nr) == Len(c) < 4 + nv + nt

\* line 80: the file has fewer lines than the header and the counts make
BodyTooShort(c, nv, nt, nr) == Len(c) < 4 + nv + nt + nr

\* how many of the four conversions of lines 74-77 are made before one
\* raises ValueError
HeaderConverted(c) ==
    IF ~IsFloatLine(c[1]) THEN 0
    ELSE IF ~IsIntLine(c[2]) THEN 1
    ELSE IF ~IsIntLine(c[3]) THEN 2
    ELSE IF ~IsIntLine(c[4]) THEN 3
    ELSE 4

-----------------------------------------------------------------------------
(* read, one loop iteration per step *)

\* an exception leaves read
ReadRaises(e) ==
    /\ pc' = "read_raised"
    /\ exc' = e

\* the frame of a query, which read has none of
QueryIdle == UNCHANGED <<roomid, tri_inds, locals, ret, peer>>

\* lines 64-71 of a call read(file)
ReadCall(file) ==
    /\ pc = "idle"
    /\ op' = "read"
    /\ content' = file
    /\ offset' = 0
    /\ i' = 0
    /\ before' = Fields
    /\ reads' = reads + 1
    /\ IF Len(file) < 4
       THEN ReadRaises("IOError: Invalid header")
       ELSE pc' = "read_header" /\ exc' = "none"
    /\ UNCHANGED fields
    /\ QueryIdle

\* lines 74-87: the header is stored, then checked against the length
ReadHeader ==
    /\ pc = "read_header"
    /\ LET n == HeaderConverted(content)
           nv == IntOf(content[2][1])
           nt == IntOf(content[3][1])
           nr == IntOf(content[4][1])
       IN  /\ res' = IF n >= 1 THEN FloatOf(content[1][1]) ELSE res
           /\ num_verts' = IF n >= 2 THEN nv ELSE num_verts
           /\ num_tris' = IF n >= 3 THEN nt ELSE num_tris
           /\ num_rooms' = IF n >= 4 THEN nr ELSE num_rooms
           /\ IF n < 4
              THEN /\ ReadRaises("ValueError")
                   /\ UNCHANGED <<verts, offset>>
              ELSE IF BodyTooShort(content, nv, nt, nr)
              THEN /\ ReadRaises("IOError: Invalid formatting")
                   /\ UNCHANGED <<verts, offset>>
              ELSE /\ pc' = "read_verts"
                   /\ verts' = <<>>
                   /\ offset' = 4
                   /\ UNCHANGED exc
    /\ UNCHANGED <<tris, room_tris, room_min_z, room_max_z>>
    /\ UNCHANGED <<content, i, before, reads, op>>
    /\ QueryIdle

\* lines 88-101: the i'th vertex
ReadVertex ==
    /\ pc = "read_verts"
    /\ i < num_verts
    /\ IF ~HasLine(content, offset + i)
       THEN ReadRaises("IndexError") /\ UNCHANGED <<verts, i>>
       ELSE LET v == LineAt(content, offset + i)
            IN  IF Len(v) # 2
                THEN ReadRaises("IOError: Vertex") /\ UNCHANGED <<verts, i>>
                ELSE IF ~(IsFloatLiteral(v[1]) /\ IsFloatLiteral(v[2]))
                THEN ReadRaises("ValueError") /\ UNCHANGED <<verts, i>>
                ELSE /\ verts' = Append(verts, <<FloatOf(v[1]), FloatOf(v[2])>>)
                     /\ i' = i + 1
                     /\ UNCHANGED <<pc, exc>>
    /\ UNCHANGED <<res, num_verts, num_tris, num_rooms, tris, room_tris,
                   room_min_z, room_max_z>>
    /\ UNCHANGED <<content, offset, before, reads, op>>
    /\ QueryIdle

\* lines 104-105: the vertices are read
ReadVerticesDone ==
    /\ pc = "read_verts"
    /\ i >= num_verts
    /\ pc' = "read_tris"
    /\ tris' = <<>>
    /\ offset' = offset + num_verts
    /\ i' = 0
    /\ UNCHANGED <<res, num_verts, num_tris, num_rooms, verts, room_tris,
                   room_min_z, room_max_z>>
    /\ UNCHANGED <<content, before, reads, op, exc>>
    /\ QueryIdle

\* lines 106-120: the i'th triangle
ReadTriangle ==
    /\ pc = "read_tris"
    /\ i < num_tris
    /\ IF ~HasLine(content, offset + i)
       THEN ReadRaises("IndexError") /\ UNCHANGED <<tris, i>>
       ELSE LET t == LineAt(content, offset + i)
            IN  IF Len(t) # 3
                THEN ReadRaises("IOError: Triangle") /\ UNCHANGED <<tris, i>>
                ELSE IF ~(\A n \in 1..3 : IsIntLiteral(t[n]))
                THEN ReadRaises("ValueError") /\ UNCHANGED <<tris, i>>
                ELSE /\ tris' = Append(tris,
                                  <<IntOf(t[1]), IntOf(t[2]), IntOf(t[3])>>)
                     /\ i' = i + 1
                     /\ UNCHANGED <<pc, exc>>
    /\ UNCHANGED <<res, num_verts, num_tris, num_rooms, verts, room_tris,
                   room_min_z, room_max_z>>
    /\ UNCHANGED <<content, offset, before, reads, op>>
    /\ QueryIdle

\* lines 123-126: the triangles are read
ReadTrianglesDone ==
    /\ pc = "read_tris"
    /\ i >= num_tris
    /\ pc' = "read_rooms"
    /\ room_tris' = <<>>
    /\ room_min_z' = PyList(<<>>)
    /\ room_max_z' = PyList(<<>>)
    /\ offset' = offset + num_tris
    /\ i' = 0
    /\ UNCHANGED <<res, num_verts, num_tris, num_rooms, verts, tris>>
    /\ UNCHANGED <<content, before, reads, op, exc>>
    /\ QueryIdle

\* lines 127-156: the i'th room.  Lines 140 and 141 bind room_min_z and
\* room_max_z to the floats of this room, each as soon as it is converted
ReadRoom ==
    /\ pc = "read_rooms"
    /\ i < num_rooms
    /\ IF ~HasLine(content, offset + i)
       THEN /\ ReadRaises("IndexError")
            /\ UNCHANGED <<room_tris, room_min_z, room_max_z, i>>
       ELSE LET r == LineAt(content, offset + i)
                n == IntOf(r[3])
            IN  IF Len(r) < 3
                THEN /\ ReadRaises("IOError: Room")
                     /\ UNCHANGED <<room_tris, room_min_z, room_max_z, i>>
                ELSE IF ~IsFloatLiteral(r[1])
                THEN /\ ReadRaises("ValueError")
                     /\ UNCHANGED <<room_tris, room_min_z, room_max_z, i>>
                ELSE IF ~IsFloatLiteral(r[2])
                THEN /\ ReadRaises("ValueError")
                     /\ room_min_z' = PyFloat(FloatOf(r[1]))
                     /\ UNCHANGED <<room_tris, room_max_z, i>>
                ELSE /\ room_min_z' = PyFloat(FloatOf(r[1]))
                     /\ room_max_z' = PyFloat(FloatOf(r[2]))
                     /\ IF ~IsIntLiteral(r[3])
                        THEN /\ ReadRaises("ValueError")
                             /\ UNCHANGED <<room_tris, i>>
                        ELSE IF Len(r) # 3 + n
                        THEN /\ ReadRaises("IOError: Room")
                             /\ UNCHANGED <<room_tris, i>>
                        ELSE IF ~(\A j \in 1..n : IsIntLiteral(r[3 + j]))
                        THEN /\ ReadRaises("ValueError")
                             /\ UNCHANGED <<room_tris, i>>
                        ELSE /\ room_tris' = Append(room_tris,
                                     [j \in 1..n |-> IntOf(r[3 + j])])
                             /\ i' = i + 1
                             /\ UNCHANGED <<pc, exc>>
    /\ UNCHANGED <<res, num_verts, num_tris, num_rooms, verts, tris>>
    /\ UNCHANGED <<content, offset, before, reads, op>>
    /\ QueryIdle

\* the for loop of line 127 ends, and read with it
ReadRoomsDone ==
    /\ pc = "read_rooms"
    /\ i >= num_rooms
    /\ pc' = "read_done"
    /\ UNCHANGED <<fields, content, offset, i, before, reads, op, exc>>
    /\ QueryIdle

\* the caller of read has its outcome; the frame is gone
ReadReturn ==
    /\ pc \in {"read_done", "read_raised"}
    /\ pc' = "idle"
    /\ op' = "none"
    /\ exc' = "none"
    /\ content' = <<>>
    /\ offset' = 0
    /\ i' = 0
    /\ before' = EmptyFields
    /\ UNCHANGED <<fields, reads>>
    /\ QueryIdle

-----------------------------------------------------------------------------
(* The files read *)

DigitChar(n) ==
    CASE n = 0 -> "0" [] n = 1 -> "1" [] n = 2 -> "2" [] n = 3 -> "3"
      [] n = 4 -> "4" [] n = 5 -> "5" [] n = 6 -> "6" [] n = 7 -> "7"
      [] n = 8 -> "8" [] n = 9 -> "9"

\* the token of the integer n, -9 <= n <= 9
IntToken(n) == IF n < 0 THEN <<"-", DigitChar(0 - n)>> ELSE <<DigitChar(n)>>

\* the token of the float n.0
FloatToken(n) == IntToken(n) \o <<".", "0">>

\* a token that is no number
Word == <<"x">>

IntLine(s) == [k \in DOMAIN s |-> IntToken(s[k])]
FloatLine(s) == [k \in DOMAIN s |-> FloatToken(s[k])]

\* floor_z ceiling_z num_tris t1 ... tN
RoomLine(floor, ceiling, ts) ==
    <<FloatToken(floor), FloatToken(ceiling), IntToken(Len(ts))>> \o IntLine(ts)

\* the .fp file of the document d with resolution 1, room r standing from
\* r to r + 3
FileOf(d) ==
    << <<FloatToken(1)>>, <<IntToken(Len(d.verts))>>,
       <<IntToken(Len(d.tris))>>, <<IntToken(Len(d.room_tris))>> >>
    \o [k \in DOMAIN d.verts |-> FloatLine(d.verts[k])]
    \o [k \in DOMAIN d.tris |-> IntLine(d.tris[k])]
    \o [k \in DOMAIN d.room_tris |-> RoomLine(k - 1, k + 2, d.room_tris[k])]

\* one counter-clockwise triangle away from the origin, one room
OffsetFloorplan ==
    [verts |-> << <<1,1>>, <<2,1>>, <<1,2>> >>,
     tris |-> << <<0,1,2>> >>,
     room_tris |-> << <<0>> >>]

EmptyFile == FileOf(EmptyFloorplan)
SquareFile == FileOf(SquareFloorplan)
DisjointFile == FileOf(DisjointFloorplan)
OffsetFile == FileOf(OffsetFloorplan)

\* the first lines of a file
Truncations(f) == {SubSeq(f, 1, n) : n \in 0..(Len(f) - 1)}

\* the file f with one of the lines L at one of the places P (1-based)
Damaged(f, P, L) == {[f EXCEPT ![p] = l] : p \in P, l \in L}

BadHeaderLines == {<<>>, <<Word>>, IntLine(<<-1>>), IntLine(<<1, 0>>)}

BadVertexLines ==
    {<<>>, <<FloatToken(0), Word>>, FloatLine(<<0, 0, 0>>), IntLine(<<5, 5>>)}

BadTriangleLines ==
    {<<>>, <<IntToken(0), IntToken(1), Word>>, IntLine(<<0, 0, 0>>),
     IntLine(<<0, 1, 9>>), IntLine(<<0, 1, -1>>),
     <<IntToken(0), IntToken(1), FloatToken(2)>>}

BadRoomLines ==
    {<<>>, FloatLine(<<0, 3>>),
     <<Word, FloatToken(3), IntToken(0)>>,
     <<FloatToken(7), Word, IntToken(0)>>,
     <<FloatToken(7), FloatToken(8), Word>>,
     <<FloatToken(0), FloatToken(3), IntToken(5)>>,
     <<FloatToken(0), FloatToken(3), IntToken(1), Word>>,
     <<FloatToken(0), FloatToken(3), IntToken(1), IntToken(9)>>,
     <<FloatToken(0), FloatToken(3), IntToken(1), IntToken(-1)>>,
     <<FloatToken(0), FloatToken(3), IntToken(-1)>>}

Files ==
    {EmptyFile, SquareFile, DisjointFile, OffsetFile}
    \cup Truncations(SquareFile)
    \cup Truncations(EmptyFile)
    \cup {EmptyFile \o <<IntLine(<<0, 0>>)>>, SquareFile \o <<<<>>>>,
          OffsetFile \o <<RoomLine(0, 3, <<0>>)>>}
    \cup Damaged(SquareFile, 1..4, BadHeaderLines)
    \cup Damaged(SquareFile, {5, 8}, BadVertexLines)
    \cup Damaged(SquareFile, {9, 10}, BadTriangleLines)
    \cup Damaged(SquareFile, {11}, BadRoomLines)
    \cup Damaged(DisjointFile, {14}, BadRoomLines)

-----------------------------------------------------------------------------
(* compute_bounds *)

\* lines 179-186: the bounds b = (x_min, x_max, y_min, y_max) after vertex v
WidenBounds(b, v) ==
    <<IF v[1] < b[1] THEN v[1] ELSE b[1],
      IF v[1] > b[2] THEN v[1] ELSE b[2],
      IF v[2] < b[3] THEN v[2] ELSE b[3],
      IF v[2] > b[4] THEN v[2] ELSE b[4]>>

\* lines 175-186: the loop over the vertices vs, from the bounds b
RECURSIVE BoundsOver(_, _)
BoundsOver(b, vs) ==
    IF Len(vs) = 0 THEN b ELSE BoundsOver(WidenBounds(b, Head(vs)), Tail(vs))

\* lines 169-172 taking the first vertex for the initial bounds
ComputeBoundsFromFirst(vs) ==
    IF Len(vs) = 0 THEN [exc |-> "IndexError", ret |-> <<>>]
    ELSE LET v == vs[1]
             b == BoundsOver(<<v[1], v[1], v[2], v[2]>>, vs)
         IN  [exc |-> "none", ret |-> <<<<b[1], b[2]>>, <<b[3], b[4]>>>>]

\* the outcome of compute_bounds on the vertices vs
ComputeBounds(vs) ==
    LET b == BoundsOver(<<0, 0, 0, 0>>, vs)
    IN  [exc |-> "none", ret |-> <<<<b[1], b[2]>>, <<b[3], b[4]>>>>]

\* lines 166-189
compute_bounds ==
    /\ pc = "idle"
    /\ LET b == ComputeBounds(verts)
       IN  /\ pc' = IF b.exc = "none" THEN "done" ELSE "raised"
           /\ ret' = b.ret
           /\ exc' = b.exc
    /\ op' = "compute_bounds"
    /\ UNCHANGED <<docvars, roomid, tri_inds, locals>>

-----------------------------------------------------------------------------
(* read and the floorplan-wide queries on one object *)

\* calls of read on one object
MaxReads == 2

\* Floorplan() (lines 39-49)
ReadInit ==
    /\ res = EmptyFields.res
    /\ num_verts = 0
    /\ num_tris = 0
    /\ num_rooms = 0
    /\ verts = <<>>
    /\ tris = <<>>
    /\ room_tris = <<>>
    /\ room_min_z = PyList(<<>>)
    /\ room_max_z = PyList(<<>>)
    /\ NoRead
    /\ peer = IdleFrame
    /\ pc = "idle"
    /\ op = "none"
    /\ roomid = -1
    /\ tri_inds = <<>>
    /\ NoLocals
    /\ ret = <<>>
    /\ exc = "none"

\* line 61, called by a user of the class
read ==
    /\ pc = "idle"
    /\ reads < MaxReads
    /\ \E file \in Files : ReadCall(file)

ReadNext ==
    \/ read
    \/ ReadHeader
    \/ ReadVertex
    \/ ReadVerticesDone
    \/ ReadTriangle
    \/ ReadTrianglesDone
    \/ ReadRoom
    \/ ReadRoomsDone
    \/ ReadReturn
    \/ compute_bounds
    \/ compute_boundary_edges
    \/ compute_oriented_boundary
    \/ ExtractBoundaryEdges
    \/ Finish

ReadSpec == ReadInit /\ [][ReadNext]_vars

-----------------------------------------------------------------------------
(* The queries with compute_bounds among them *)

QueryNext ==
    \/ Next
    \/ compute_bounds

QuerySpec == Init /\ [][QueryNext]_vars

-----------------------------------------------------------------------------
(* A call runs on: a loop iteration that can be made is made *)

\* the steps inside a call
CallStep ==
    \/ ExtractBoundaryEdges
    \/ OuterIteration
    \/ ReturnBoundaryList
    \/ InnerIteration
    \/ InnerExit
    \/ InnerKeyError

FairSpec == Init /\ [][Next]_vars /\ WF_vars(CallStep)

-----------------------------------------------------------------------------
(* Two threads querying one document: the calls of the second thread run   *)
(* in the frame peer, one loop iteration per step, between the steps of    *)
(* the first                                                               *)

\* the wrappers of the class and their arguments on this document
WrapperCalls ==
    {<<"compute_bounds", -1>>, <<"compute_boundary_edges", -1>>,
     <<"compute_oriented_boundary", -1>>}
    \cup {<<"compute_room_boundary_edges", r>> : r \in 0..(Len(room_tris) - 1)}
    \cup {<<"compute_room_oriented_boundary", r>> :
              r \in 0..(Len(room_tris) - 1)}

\* the list a wrapper hands to compute_*_for (lines 200, 214, 263, 278)
ScopeOf(m, r) ==
    IF r >= 0 THEN room_tris[r + 1] ELSE PyRange(Len(tris))

\* the frame of the call m(r) as it is entered
EnterFrame(m, r) ==
    IF m = "compute_bounds"
    THEN LET b == ComputeBounds(verts)
         IN  [IdleFrame EXCEPT !.pc = IF b.exc = "none" THEN "done" ELSE "raised",
                               !.op = m, !.ret = b.ret, !.exc = b.exc]
    ELSE IF m = "compute_oriented_boundary"
    THEN [IdleFrame EXCEPT !.pc = "raised", !.op = m, !.exc = "AttributeError"]
    ELSE [IdleFrame EXCEPT !.pc = "extract", !.op = m, !.roomid = r,
                           !.tri_inds = ScopeOf(m, r)]

\* lines 229-246, and for the oriented queries lines 296-307, in the frame f
ExtractStep(f) ==
    LET b == BoundaryEdgesFor(f.tri_inds)
    IN  IF b.exc # "none"
        THEN [f EXCEPT !.pc = "raised", !.exc = b.exc]
        ELSE IF f.op \in BoundaryEdgeOps
        THEN [f EXCEPT !.pc = "done", !.ret = b.ret]
        ELSE LET s == WalkStart(b.ret)
             IN  [f EXCEPT !.pc = s.pc, !.all_edges = s.all_edges,
                           !.edge_map = s.edge_map,
                           !.boundary_list = s.boundary_list,
                           !.last = s.last, !.open_walks = s.open_walks]

\* the second thread's frame with the last observed vertex kept in the
\* object, where the first thread's calls write it too
PeerViewSharedLast == [peer EXCEPT !.last = last]

\* the locals the second thread's call works on: its own
PeerView == peer

\* the second thread calls a wrapper
PeerCall ==
    /\ peer.pc = "idle"
    /\ \E c \in WrapperCalls : peer' = EnterFrame(c[1], c[2])
    /\ UNCHANGED <<fields, readvars, pc, op, roomid, tri_inds, locals, ret, exc>>

\* one step of the second thread's call
PeerStep ==
    /\ peer.pc \in {"extract", "outer", "inner"}
    /\ peer' = IF peer.pc = "extract" THEN ExtractStep(PeerView)
               ELSE WalkStep(PeerView)
    /\ UNCHANGED <<fields, readvars, pc, op, roomid, tri_inds, locals, ret, exc>>

\* the second thread has its result (or the exception)
PeerFinish ==
    /\ peer.pc \in {"done", "raised"}
    /\ peer' = IdleFrame
    /\ UNCHANGED <<fields, readvars, pc, op, roomid, tri_inds, locals, ret, exc>>

ConcNext ==
    \/ compute_bounds
    \/ compute_boundary_edges
    \/ compute_room_boundary_edges
    \/ compute_oriented_boundary
    \/ compute_room_oriented_boundary
    \/ ExtractBoundaryEdges
    \/ OuterIteration
    \/ ReturnBoundaryList
    \/ InnerIteration
    \/ InnerExit
    \/ InnerKeyError
    \/ Finish
    \/ PeerCall
    \/ PeerStep
    \/ PeerFinish

ConcSpec == Init /\ [][ConcNext]_vars

-----------------------------------------------------------------------------
(* What the claims speak of *)

Reverse(e) == <<e[2], e[1]>>

\* the triangles a list of indices selects
TrisOf(inds) == [n \in DOMAIN inds |-> TriAt(inds[n])]

Nondegenerate(t) == t[1] # t[2] /\ t[2] # t[3] /\ t[1] # t[3]

\* a boundary-edge query has returned
EdgesDone == pc = "done" /\ op \in BoundaryEdgeOps

\* the oriented queries that reach compute_oriented_boundary_for
TracerOps == {"compute_room_oriented_boundary", "compute_oriented_boundary_for"}

\* an oriented query has returned
OrientedDone == pc = "done" /\ op \in TracerOps

\* an oriented query has ended, by return or by exception
OrientedEnded == pc \in {"done", "raised"} /\ op \in TracerOps

DistinctIndices(inds) ==
    \A m, n \in DOMAIN inds : m # n => inds[m] # inds[n]

\* C2: for a subset of triangle indices (each index once), an emitted edge
\* (i,j) is returned as a boundary edge if and only if (i,j) is emitted
\* exactly once and (j,i) is never emitted.
C2_BoundaryIffCountOne ==
    (EdgesDone /\ DistinctIndices(tri_inds)) =>
        LET em == EmittedEdges(tri_inds)
        IN  \A e \in Range(em) :
                Contains(ret, e) <=>
                    (Count(em, e) = 1 /\ Count(em, Reverse(e)) = 0)

\* distinct indices of non-degenerate triangles, no two of them on the same
\* three vertices (so pairwise different, whatever their rotation or winding)
WellFormedSubset(inds) ==
    /\ DistinctIndices(inds)
    /\ \A m, n \in DOMAIN inds :
        m # n => Range(TriAt(inds[m])) # Range(TriAt(inds[n]))
    /\ \A n \in DOMAIN inds : Nondegenerate(TriAt(inds[n]))

\* C3: for distinct triangle indices whose triangles are pairwise different
\* and non-degenerate, no edge is returned twice.
C3_NoEdgeReturnedTwice ==
    (EdgesDone /\ WellFormedSubset(tri_inds))
    => \A e \in Range(ret) : Count(ret, e) = 1

-----------------------------------------------------------------------------
(* Loops, and the shape of a triangle subset *)

\* the cyclically consecutive pairs of a loop, the closing pair included
LoopEdges(loop) ==
    {<<loop[k], loop[(k % Len(loop)) + 1]>> : k \in DOMAIN loop}

\* the boundary edges of the subset, as returned
BoundaryList(inds) == BoundaryEdges(EmittedEdges(inds))

\* the vertices that start or end an edge of the list b
EndsOf(b) == {b[n][1] : n \in DOMAIN b} \cup {b[n][2] : n \in DOMAIN b}

\* how many edges of the list b leave v, and how many enter it
OutDegree(b, v) == Cardinality({n \in DOMAIN b : b[n][1] = v})
InDegree(b, v) == Cardinality({n \in DOMAIN b : b[n][2] = v})

\* every vertex has at most one outgoing edge in b
SingleOutgoing(b) == \A v \in EndsOf(b) : OutDegree(b, v) <= 1

\* every vertex has as many incoming as outgoing edges in b
Balanced(b) == \A v \in EndsOf(b) : InDegree(b, v) = OutDegree(b, v)

\* the edges of b read in both directions
Links(b) == Range(b) \cup {Reverse(e) : e \in Range(b)}

\* what a set R of nodes reaches along the pairs of Rel
RECURSIVE ReachFrom(_, _)
ReachFrom(R, Rel) ==
    LET N == R \cup {p[2] : p \in {q \in Rel : q[1] \in R}}
    IN  IF N = R THEN R ELSE ReachFrom(N, Rel)

\* the nodes are one component of the symmetric relation Rel
IsConnected(Nodes, Rel) ==
    /\ Nodes # {}
    /\ ReachFrom({CHOOSE n \in Nodes : TRUE}, Rel) = Nodes

\* the components of Nodes under the symmetric relation Rel
Components(Nodes, Rel) == {ReachFrom({n}, Rel) : n \in Nodes}

TriEdges(t) == {<<t[1], t[2]>>, <<t[2], t[3]>>, <<t[3], t[1]>>}

\* triangles t and u share an edge, wound opposite ways (through vertex v,
\* when v is not -1)
SharesEdge(t, u, v) ==
    \E e \in TriEdges(t) :
        /\ Reverse(e) \in TriEdges(u)
        /\ v = -1 \/ v = e[1] \/ v = e[2]

\* the pairs of positions in P of the triangle list ts that share an edge
FaceLinks(ts, P, v) == {q \in P \X P : SharesEdge(ts[q[1]], ts[q[2]], v)}

\* V - E + F of the triangle list ts with emitted edges em
EulerCharacteristic(ts, em) ==
    Cardinality({em[n][1] : n \in DOMAIN em})
    - Cardinality({{em[n][1], em[n][2]} : n \in DOMAIN em})
    + Len(ts)

\* a consistently wound, connected triangulated surface with a boundary that
\* does not touch itself: no directed edge twice, the triangles connected
\* across shared edges, the triangles at each vertex one fan, at most one
\* boundary edge leaving each vertex
IsSurfaceWithBoundary(inds) ==
    /\ Len(inds) > 0
    /\ \A n \in DOMAIN inds : ValidIndex(inds[n]) /\ Nondegenerate(TriAt(inds[n]))
    /\ LET ts == TrisOf(inds)
           em == EmittedEdges(inds)
           b == BoundaryEdges(em)
       IN  /\ Cardinality(Range(em)) = Len(em)
           /\ Len(b) > 0
           /\ SingleOutgoing(b)
           /\ IsConnected(DOMAIN ts, FaceLinks(ts, DOMAIN ts, -1))
           /\ \A v \in {em[n][1] : n \in DOMAIN em} :
               LET P == {n \in DOMAIN ts : v \in Range(ts[n])}
               IN  IsConnected(P, FaceLinks(ts, P, v))

\* one region without a hole
IsDisk(inds) ==
    /\ IsSurfaceWithBoundary(inds)
    /\ EulerCharacteristic(TrisOf(inds), EmittedEdges(inds)) = 1

\* twice the signed area of the triangle or polygon p (shoelace formula)
RECURSIVE ShoelaceSum(_, _)
ShoelaceSum(p, k) ==
    IF k = 0 THEN 0
    ELSE LET a == verts[p[k] + 1]
             b == verts[p[(k % Len(p)) + 1] + 1]
         IN  (a[1] * b[2] - b[1] * a[2]) + ShoelaceSum(p, k - 1)

SignedArea2(p) == ShoelaceSum(p, Len(p))

\* one region with exactly one hole, its triangles counter-clockwise
IsAnnulus(inds) ==
    /\ IsSurfaceWithBoundary(inds)
    /\ EulerCharacteristic(TrisOf(inds), EmittedEdges(inds)) = 0
    /\ \A n \in DOMAIN inds : SignedArea2(TriAt(inds[n])) > 0

\* C4: every returned loop (of a subset of distinct, different,
\* non-degenerate triangles) is a closed polygon of boundary edges: each
\* consecutive pair of a loop, and the pair from its last vertex back to its
\* first, is a boundary edge of the subset.
C4_LoopsAreClosedBoundaryPolygons ==
    (OrientedDone /\ WellFormedSubset(tri_inds)) =>
        LET B == Range(BoundaryList(tri_inds))
        IN  \A k \in DOMAIN ret : LoopEdges(ret[k]) \subseteq B

\* C5: a subset forming one disk (connected, no hole, consistently wound,
\* boundary not touching itself) yields exactly one loop; the loop visits
\* each boundary vertex once and each step of it, the closing one included,
\* is a boundary edge in its own direction.
C5_DiskYieldsOneLoop ==
    (OrientedEnded /\ IsDisk(tri_inds)) =>
        LET b == BoundaryList(tri_inds)
        IN  /\ pc = "done"
            /\ Len(ret) = 1
            /\ Range(ret[1]) = EndsOf(b)
            /\ Len(ret[1]) = Cardinality(EndsOf(b))
            /\ LoopEdges(ret[1]) = Range(b)

\* C5 witness: an oriented query over a disk of several triangles with a
\* vertex in its interior has returned its loop.
C5_Witness ==
    /\ OrientedDone
    /\ Len(tri_inds) >= 3
    /\ IsDisk(tri_inds)
    /\ Cardinality(EndsOf(EmittedEdges(tri_inds))) > Cardinality(EndsOf(BoundaryList(tri_inds)))
    /\ Len(ret) = 1

\* C6: a subset forming an annulus yields exactly two loops that share no
\* vertex and between them trace every boundary edge once: the outer
\* boundary, counter-clockwise and enclosing the larger area, and the
\* boundary of the hole, clockwise.
C6_AnnulusYieldsTwoLoops ==
    (OrientedEnded /\ IsAnnulus(tri_inds)) =>
        LET b == BoundaryList(tri_inds)
        IN  /\ pc = "done"
            /\ Len(ret) = 2
            /\ Range(ret[1]) \cap Range(ret[2]) = {}
            /\ LoopEdges(ret[1]) \cup LoopEdges(ret[2]) = Range(b)
            /\ Len(ret[1]) + Len(ret[2]) = Len(b)
            /\ \E o, h \in {1, 2} :
                /\ SignedArea2(ret[o]) > 0
                /\ SignedArea2(ret[h]) < 0
                /\ SignedArea2(ret[o]) > 0 - SignedArea2(ret[h])

\* C6 witness: an oriented query over an annulus has returned two loops.
C6_Witness ==
    /\ OrientedDone
    /\ Len(tri_inds) >= 6
    /\ IsAnnulus(tri_inds)
    /\ Len(ret) = 2

\* as many loops as the graph of the edge list b has components, the
\* vertices of each component those of exactly one loop
LoopPerComponent(b) ==
    LET comps == Components(EndsOf(b), Links(b))
    IN  /\ pc = "done"
        /\ Len(ret) = Cardinality(comps)
        /\ \A c \in comps :
            Cardinality({k \in DOMAIN ret : Range(ret[k]) = c}) = 1

IsScenarioA ==
    /\ verts = << <<0,0>>, <<1,0>>, <<1,1>>, <<0,1>> >>
    /\ TrisOf(tri_inds) = << <<0,1,2>>, <<0,2,3>> >>

ScenarioAEdges == {<<0,1>>, <<1,2>>, <<2,3>>, <<3,0>>}

\* C8 as stated: on the unit square (0,1,2),(0,2,3) the boundary edges are
\* (0,1),(1,2),(2,3),(3,0) and the oriented boundary is the loop [0,1,2,3].
C8_ScenarioA_AsStated ==
    (IsScenarioA /\ pc \in {"done", "raised"} /\ op # "compute_oriented_boundary") =>
        /\ pc = "done"
        /\ op \in BoundaryEdgeOps => Range(ret) = ScenarioAEdges
        /\ op \in TracerOps => ret = << <<0,1,2,3>> >>

\* C8 amended: on the unit square (0,1,2),(0,2,3) the boundary edges are
\* (0,1),(1,2),(2,3),(3,0), each returned once, and the oriented boundary is
\* the single loop [3,0,1,2]: the cycle 0,1,2,3 started at vertex 3.
C8_ScenarioA ==
    (IsScenarioA /\ pc \in {"done", "raised"} /\ op # "compute_oriented_boundary") =>
        /\ pc = "done"
        /\ op \in BoundaryEdgeOps =>
            (Range(ret) = ScenarioAEdges /\ Len(ret) = 4)
        /\ op \in TracerOps =>
            (ret = << <<3,0,1,2>> >> /\ LoopEdges(ret[1]) = ScenarioAEdges)

\* C8 witness: the oriented query over the unit square has returned its loop.
C8_Witness ==
    /\ IsScenarioA
    /\ OrientedDone
    /\ tris = SquareFloorplan.tris
    /\ ret = << <<3,0,1,2>> >>

\* a walk of the running query could not close: it stopped at a vertex whose
\* outgoing edges were all used, or arrived at a vertex that has none
WalkCouldNotClose == open_walks # {} \/ exc = "KeyError"

\* C9: when a walk cannot close, the query is not aborted and the open
\* polyline is not among the loops it returns.
C9_OpenWalkNotReturnedAsLoop ==
    (OrientedEnded /\ WellFormedSubset(tri_inds) /\ WalkCouldNotClose) =>
        /\ pc = "done"
        /\ \A k \in DOMAIN ret : k \notin open_walks

Outcome == [exc |-> exc, ret |-> ret]

\* C10: each wrapper returns what the subset operation returns on its scope:
\* the room's triangle list for the room queries, all triangle indices for
\* the floorplan-wide queries.
C10_WrappersAreScopedCalls ==
    pc \in {"done", "raised"} =>
        /\ op = "compute_boundary_edges" =>
            Outcome = BoundaryEdgesFor(PyRange(Len(tris)))
        /\ op = "compute_room_boundary_edges" =>
            Outcome = BoundaryEdgesFor(room_tris[roomid + 1])
        /\ op = "compute_oriented_boundary" =>
            Outcome = OrientedBoundaryFor(PyRange(Len(tris)))
        /\ op = "compute_room_oriented_boundary" =>
            Outcome = OrientedBoundaryFor(room_tris[roomid + 1])

-----------------------------------------------------------------------------
(* Orientation of the loops, read and compute_bounds *)

\* C11: every loop an oriented query returns for a subset of
\* counter-clockwise triangles (here: one that is a surface with boundary)
\* is counter-clockwise, its signed area by the shoelace formula positive.
C11_LoopsCounterClockwise ==
    (/\ OrientedDone
     /\ IsSurfaceWithBoundary(tri_inds)
     /\ \A n \in DOMAIN tri_inds : SignedArea2(TriAt(tri_inds[n])) > 0) =>
        \A k \in DOMAIN ret : SignedArea2(ret[k]) > 0

\* read is running or has ended, its outcome not yet taken
InRead == op = "read"

\* read has returned
ReadDone == pc = "read_done"

\* read has raised
ReadFailed == pc = "read_raised"

\* read has not got to a record: the vertex, triangle and room lists are
\* the ones of before the call
NoRecordParsed ==
    /\ pc \in {"read_header", "read_raised"}
    /\ verts = before.verts
    /\ tris = before.tris
    /\ room_tris = before.room_tris

\* the counts the header of the file c declares
Declared(c) ==
    [num_verts |-> IntOf(c[2][1]), num_tris |-> IntOf(c[3][1]),
     num_rooms |-> IntOf(c[4][1])]

\* C12: a file of fewer than 4 lines fails with the header error, and a
\* file with a numeric header and fewer than 4 + num_verts + num_tris +
\* num_rooms lines fails with the body-count error; neither read gets to a
\* vertex, triangle or room record.
C12_ShortInputRejected ==
    InRead =>
        /\ Len(content) < 4 =>
            /\ ReadFailed
            /\ exc = "IOError: Invalid header"
            /\ NoRecordParsed
        /\ (/\ Len(content) >= 4
            /\ HeaderConverted(content) = 4
            /\ LET d == Declared(content)
               IN  Len(content) < 4 + d.num_verts + d.num_tris + d.num_rooms) =>
            /\ NoRecordParsed
            /\ ReadFailed => exc = "IOError: Invalid formatting"

\* C12 witness: read has refused a file that has its header and some, not
\* all, of the record lines the header declares.
C12_Witness ==
    /\ InRead
    /\ ReadFailed
    /\ exc = "IOError: Invalid formatting"
    /\ Len(content) > 4
    /\ NoRecordParsed

\* C13: a file that read accepts has exactly as many lines after its header
\* as its header declares records.
C13_CountsEqualRecordLines ==
    (InRead /\ ReadDone) =>
        Len(content) - 4 = num_verts + num_tris + num_rooms

\* a token that is no number
NonNumeric(t) == ~IsFloatLiteral(t)

MalformedVertex(l) == Len(l) # 2 \/ \E n \in DOMAIN l : NonNumeric(l[n])

MalformedTriangle(l) == Len(l) # 3 \/ \E n \in DOMAIN l : NonNumeric(l[n])

MalformedRoom(l) ==
    \/ Len(l) < 3
    \/ \E n \in DOMAIN l : NonNumeric(l[n])
    \/ IsIntLiteral(l[3]) /\ Len(l) # 3 + IntOf(l[3])

\* the header of c is numeric, its counts not negative, and c has the lines
\* it declares
HasDeclaredRecords(c) ==
    /\ Len(c) >= 4
    /\ HeaderConverted(c) = 4
    /\ LET d == Declared(c)
       IN  /\ d.num_verts >= 0 /\ d.num_tris >= 0 /\ d.num_rooms >= 0
           /\ Len(c) >= 4 + d.num_verts + d.num_tris + d.num_rooms

\* the record lines of c in file order, each with its kind and its index
\* among the records of its kind
Records(c) ==
    LET d == Declared(c)
    IN  [k \in 1..(d.num_verts + d.num_tris + d.num_rooms) |->
            IF k <= d.num_verts
            THEN [kind |-> "Vertex", index |-> k - 1, line |-> c[4 + k]]
            ELSE IF k <= d.num_verts + d.num_tris
            THEN [kind |-> "Triangle", index |-> k - 1 - d.num_verts,
                  line |-> c[4 + k]]
            ELSE [kind |-> "Room",
                  index |-> k - 1 - d.num_verts - d.num_tris,
                  line |-> c[4 + k]]]

Malformed(r) ==
    CASE r.kind = "Vertex" -> MalformedVertex(r.line)
      [] r.kind = "Triangle" -> MalformedTriangle(r.line)
      [] r.kind = "Room" -> MalformedRoom(r.line)

\* C14: when a record line is malformed (wrong token count or a non-numeric
\* token), read fails with the malformed-line error of the kind of the
\* first such record in file order, and with that record's index.
C14_FirstMalformedRecordReported ==
    (InRead /\ pc \in {"read_done", "read_raised"}
       /\ HasDeclaredRecords(content)) =>
        LET rs == Records(content)
            bad == {k \in DOMAIN rs : Malformed(rs[k])}
        IN  bad # {} =>
                LET first == rs[CHOOSE k \in bad : \A m \in bad : k <= m]
                IN  /\ ReadFailed
                    /\ exc = "IOError: " \o first.kind
                    /\ i = first.index

\* C15: a read that fails leaves every field of the object as it was before
\* the call.
C15_FailedReadLeavesFields ==
    (InRead /\ ReadFailed) => Fields = before

\* C16: after read has accepted a file, room_min_z and room_max_z are lists
\* with one entry per room, entry r the floor_z and the ceiling_z of the
\* r-th room record.
C16_ElevationPerRoom ==
    (InRead /\ ReadDone /\ HasDeclaredRecords(content)) =>
        LET room(r) == content[4 + num_verts + num_tris + r + 1]
        IN  /\ room_min_z.isList
            /\ room_max_z.isList
            /\ Len(room_min_z.list) = num_rooms
            /\ Len(room_max_z.list) = num_rooms
            /\ \A r \in 0..(num_rooms - 1) :
                /\ room_min_z.list[r + 1] = FloatOf(room(r)[1])
                /\ room_max_z.list[r + 1] = FloatOf(room(r)[2])

\* C17: after read has accepted a file, every triangle names three distinct
\* vertex indices in 0..num_verts-1, and every entry of every room's list
\* is in 0..num_tris-1.
C17_IndicesInRange ==
    (InRead /\ ReadDone) =>
        /\ \A n \in DOMAIN tris :
            /\ Nondegenerate(tris[n])
            /\ \A m \in 1..3 : tris[n][m] \in 0..(num_verts - 1)
        /\ \A r \in DOMAIN room_tris : \A n \in DOMAIN room_tris[r] :
            room_tris[r][n] \in 0..(num_tris - 1)

Least(S) == CHOOSE x \in S : \A y \in S : x <= y
Greatest(S) == CHOOSE x \in S : \A y \in S : x >= y

\* C18: for a floorplan with a vertex, compute_bounds returns the least and
\* the greatest x and the least and the greatest y over the vertices.
C18_BoundsAreBoundingBox ==
    (op = "compute_bounds" /\ pc \in {"done", "raised"} /\ Len(verts) >= 1) =>
        LET xs == {verts[n][1] : n \in DOMAIN verts}
            ys == {verts[n][2] : n \in DOMAIN verts}
        IN  /\ pc = "done"
            /\ ret = <<<<Least(xs), Greatest(xs)>>, <<Least(ys), Greatest(ys)>>>>

\* C19: for a floorplan without a vertex, compute_bounds returns and its
\* bounds are all zero.
C19_EmptyBoundsAllZero ==
    (op = "compute_bounds" /\ pc \in {"done", "raised"} /\ Len(verts) = 0) =>
        /\ pc = "done"
        /\ ret = <<<<0, 0>>, <<0, 0>>>>

\* C19 witness: compute_bounds has returned on an object that read has
\* filled from a file declaring no vertex.
C19_Witness ==
    /\ op = "compute_bounds"
    /\ pc = "done"
    /\ reads >= 1
    /\ res = 1
    /\ num_verts = 0
    /\ verts = <<>>
    /\ ret = <<<<0, 0>>, <<0, 0>>>>

\* a file of four lines: a resolution and three counts of zero
IsEmptyFile(c) ==
    /\ Len(c) = 4
    /\ IsFloatLine(c[1])
    /\ \A n \in 2..4 : c[n] = <<IntToken(0)>>

\* the object has no vertex, no triangle and no room
IsEmptyDocument ==
    /\ num_verts = 0 /\ num_tris = 0 /\ num_rooms = 0
    /\ verts = <<>> /\ tris = <<>> /\ room_tris = <<>>

\* C20: read accepts a file whose counts are all zero, and on a floorplan
\* without vertices, triangles and rooms the boundary-edge query and the
\* oriented boundary query each return an empty list.
C20_EmptyFloorplanEmptyResults ==
    /\ (InRead /\ pc \in {"read_done", "read_raised"}
          /\ IsEmptyFile(content)) =>
            ReadDone /\ IsEmptyDocument
    /\ (IsEmptyDocument /\ pc \in {"done", "raised"}
          /\ op \in {"compute_boundary_edges", "compute_oriented_boundary"}) =>
            pc = "done" /\ ret = <<>>

-----------------------------------------------------------------------------
(* The document under queries, alone and from two threads *)

\* the scope of the call in progress: the list the caller passed, the room's
\* list, or every triangle index
Scope ==
    IF op \in {"compute_boundary_edges_for", "compute_oriented_boundary_for"}
    THEN tri_inds
    ELSE IF roomid >= 0 THEN room_tris[roomid + 1] ELSE PyRange(Len(tris))

\* what the query in progress returns on the document as it is now
QueryOutcome ==
    IF op = "compute_bounds" THEN ComputeBounds(verts)
    ELSE IF op = "compute_oriented_boundary"
    THEN [exc |-> "AttributeError", ret |-> <<>>]
    ELSE IF op \in BoundaryEdgeOps THEN BoundaryEdgesFor(Scope)
    ELSE OrientedBoundaryFor(Scope)

\* C21: no step of a query changes a field of the document, and a query that
\* has ended, after whatever queries went before it, has returned what it
\* returns on the document as loaded.
C21_QueriesOnlyRead ==
    /\ [][Fields' = Fields]_vars
    /\ [](pc \in {"done", "raised"} => Outcome = QueryOutcome)

\* a room's oriented boundary has been traced, consuming the pending edges,
\* and the room's triangle list is whole
C21_Witness ==
    /\ pc = "done"
    /\ op = "compute_room_oriented_boundary"
    /\ Len(ret) >= 1
    /\ Len(tri_inds) >= 2
    /\ all_edges = <<>>
    /\ room_tris[roomid + 1] = tri_inds

\* what the call m(r) returns when no other call runs
Alone(m, r) ==
    IF m = "compute_bounds" THEN ComputeBounds(verts)
    ELSE IF m = "compute_oriented_boundary"
    THEN [exc |-> "AttributeError", ret |-> <<>>]
    ELSE IF m \in BoundaryEdgeOps THEN BoundaryEdgesFor(ScopeOf(m, r))
    ELSE OrientedBoundaryFor(ScopeOf(m, r))

\* C22: however the steps of two threads' query calls on one object
\* interleave, each call that has ended has returned what it returns when it
\* runs alone.
C22_ConcurrentQueriesAsAlone ==
    /\ pc \in {"done", "raised"} => Outcome = Alone(op, roomid)
    /\ peer.pc \in {"done", "raised"} =>
           [exc |-> peer.exc, ret |-> peer.ret] = Alone(peer.op, peer.roomid)

\* one thread has its loops while the other is in the middle of a walk over
\* another room
C22_Witness ==
    /\ pc = "done"
    /\ op = "compute_room_oriented_boundary"
    /\ Len(ret) >= 1
    /\ peer.pc = "inner"
    /\ peer.op = "compute_room_oriented_boundary"
    /\ peer.roomid # roomid
    /\ Len(peer.all_edges) >= 1

-----------------------------------------------------------------------------
(* Writing a floorplan and reading it back *)

\* the in-memory floorplan of the document d: resolution 1, room r standing
\* from r to r + 3, one floor and one ceiling elevation per room
InMemory(d) ==
    [res |-> 1, num_verts |-> Len(d.verts), num_tris |-> Len(d.tris),
     num_rooms |-> Len(d.room_tris), verts |-> d.verts, tris |-> d.tris,
     room_tris |-> d.room_tris,
     room_min_z |-> PyList([k \in DOMAIN d.room_tris |-> k - 1]),
     room_max_z |-> PyList([k \in DOMAIN d.room_tris |-> k + 2])]

\* the .fp text of the floorplan F: the resolution, the three counts, a line
\* per vertex, a line per triangle, a line per room
WriteFp(F) ==
    << <<FloatToken(F.res)>>, <<IntToken(F.num_verts)>>,
       <<IntToken(F.num_tris)>>, <<IntToken(F.num_rooms)>> >>
    \o [k \in 1..F.num_verts |-> FloatLine(F.verts[k])]
    \o [k \in 1..F.num_tris |-> IntLine(F.tris[k])]
    \o [k \in 1..F.num_rooms |->
           RoomLine(F.room_min_z.list[k], F.room_max_z.list[k], F.room_tris[k])]

\* the floorplans written and read back
RoundTripDocuments ==
    {EmptyFloorplan, SquareFloorplan, DisjointFloorplan, OffsetFloorplan}

\* C23: a read that has parsed the text written from an in-memory floorplan
\* leaves the object equal to that floorplan, field by field.
C23_RoundTrip ==
    ReadDone =>
        \A d \in RoundTripDocuments :
            content = WriteFp(InMemory(d)) => Fields = InMemory(d)

-----------------------------------------------------------------------------
(* The walk of compute_oriented_boundary_for *)

\* the oriented query is between its first and its last line
Tracing == op \in TracerOps /\ pc \in {"extract", "outer", "inner"}

\* the step is an iteration of the outer while (line 310 true)
IsOuterIteration == pc = "outer" /\ Len(all_edges) > 0

\* the step is an iteration of the inner while (line 324 true)
IsInnerIteration ==
    /\ pc = "inner"
    /\ last \in DOMAIN edge_map
    /\ Len(edge_map[last]) > 0

\* C24: every iteration of the outer loop and of the inner walk takes exactly
\* one edge off the pending list, no step of the walk puts one on, and the
\* call, once started, comes to its end.
C24_WalkTerminates ==
    /\ [][/\ (IsOuterIteration \/ IsInnerIteration) =>
                Len(all_edges') = Len(all_edges) - 1
          /\ pc \in {"outer", "inner"} => Len(all_edges') <= Len(all_edges)]_vars
    /\ Tracing ~> (pc \in {"done", "raised"})

\* a call on a list of triangles has ended with two loops or more, every
\* pending edge consumed
C24_Witness ==
    /\ pc = "done"
    /\ op = "compute_oriented_boundary_for"
    /\ Len(ret) >= 2
    /\ all_edges = <<>>

\* the document keeps the index invariants: every vertex index of a triangle
\* is an index into verts and every entry of a room's list one into tris
IndexInvariants ==
    /\ \A t \in Range(tris) : \A k \in 1..3 : t[k] \in 0..(Len(verts) - 1)
    /\ \A r \in Range(room_tris) : \A n \in DOMAIN r : r[n] \in 0..(Len(tris) - 1)

\* the edges that start at vertex v according to the map m
OutgoingIn(m, v) == IF v \in DOMAIN m THEN m[v] ELSE <<>>

\* the pending list and the per-vertex outgoing lists hold the same edges,
\* each as often
PendingAgree ==
    \A e \in Range(all_edges) \cup UNION {Range(edge_map[v]) : v \in DOMAIN edge_map} :
        Count(all_edges, e) = Count(OutgoingIn(edge_map, e[1]), e)

\* C25: on in-range triangle indices of a document that keeps the index
\* invariants, the oriented query raises nothing, and at every step of its
\* walk the pending list and the outgoing lists hold the same edges.
C25_TotalOnWellIndexedInput ==
    (/\ op \in TracerOps
     /\ IndexInvariants
     /\ \A n \in DOMAIN tri_inds : tri_inds[n] \in 0..(Len(tris) - 1)) =>
        /\ pc # "raised"
        /\ pc \in {"outer", "inner"} => PendingAgree

\* no directed edge is emitted more than once by the triangles of inds
EmittedOnce(inds) ==
    LET em == EmittedEdges(inds)
    IN  Cardinality(Range(em)) = Len(em)

\* the places <<k, j>> where the loops have the edge e as the pair of the
\* j-th vertex of loop k and the cyclically next one
PlacesOf(loops, e) ==
    {p \in UNION {{<<k, j>> : j \in DOMAIN loops[k]} : k \in DOMAIN loops} :
        <<loops[p[1]][p[2]], loops[p[1]][(p[2] % Len(loops[p[1]])) + 1]>> = e}

RECURSIVE TotalLength(_)
\* the sum of the lengths of the loops
TotalLength(loops) ==
    IF loops = <<>> THEN 0
    ELSE Len(loops[1]) + TotalLength(SubSeq(loops, 2, Len(loops)))

\* C26: when no directed edge is emitted more than once, the query returns,
\* every boundary edge stands at exactly one place of exactly one loop, and
\* the loop lengths add up to the number of boundary edges.
C26_LoopsPartitionBoundary ==
    (OrientedEnded /\ EmittedOnce(tri_inds)) =>
        LET B == BoundaryList(tri_inds)
        IN  /\ pc = "done"
            /\ \A e \in Range(B) : Cardinality(PlacesOf(ret, e)) = 1
            /\ TotalLength(ret) = Len(B)

\* two triangles sharing an edge have been traced: the shared edge is in no
\* loop and the four boundary edges make up the one loop returned
C26_Witness ==
    /\ OrientedDone
    /\ EmittedOnce(tri_inds)
    /\ Len(tri_inds) = 2
    /\ Len(ret) = 1
    /\ Len(ret[1]) = 4
    /\ Len(BoundaryList(tri_inds)) = 4

\* the vertex the boundary under construction started at
WalkOrigin == boundary_list[Len(boundary_list)][1]

\* as many pending edges into v as out of it
PendingBalancedAt(v) == InDegree(all_edges, v) = OutDegree(all_edges, v)

\* C27: when no directed edge is emitted more than once, the boundary edges
\* are balanced at every vertex; between two boundaries the pending edges are
\* balanced everywhere, and inside a walk everywhere but at the walk's two
\* ends; the vertex the walk stands at always has an outgoing edge left, so
\* no walk ends open and nothing is raised.
C27_BalanceClosesEveryLoop ==
    (op \in TracerOps /\ pc # "extract" /\ EmittedOnce(tri_inds)) =>
        /\ Balanced(BoundaryList(tri_inds))
        /\ pc = "outer" => Balanced(all_edges)
        /\ pc = "inner" =>
            /\ \A v \in EndsOf(all_edges) \ {WalkOrigin, last} :
                   PendingBalancedAt(v)
            /\ last \in DOMAIN edge_map
            /\ Len(edge_map[last]) > 0
        /\ open_walks = {}
        /\ pc # "raised"

\* a walk is under way between two different ends, with pending edges at
\* vertices off the walk, after a first loop has closed
C27_Witness ==
    /\ op \in TracerOps
    /\ pc = "inner"
    /\ EmittedOnce(tri_inds)
    /\ Len(boundary_list) = 2
    /\ Len(boundary_list[1]) >= 3
    /\ last # WalkOrigin
    /\ EndsOf(all_edges) \ {WalkOrigin, last} # {}

\* no vertex index stands twice in the loop
IsSimple(loop) == Cardinality(Range(loop)) = Len(loop)

\* C28 as stated: when no directed edge is emitted more than once, no vertex
\* occurs twice within a returned loop, whatever the order of the indices.
C28_LoopsAreSimple_AsStated ==
    (OrientedDone /\ EmittedOnce(tri_inds)) =>
        \A k \in DOMAIN ret : IsSimple(ret[k])

\* C28: when no directed edge is emitted more than once and every vertex has
\* at most one outgoing boundary edge, no vertex occurs twice within a
\* returned loop, whatever the order of the indices.
C28_LoopsAreSimple ==
    (/\ OrientedDone
     /\ EmittedOnce(tri_inds)
     /\ SingleOutgoing(BoundaryList(tri_inds))) =>
        \A k \in DOMAIN ret : IsSimple(ret[k])

\* three triangles given in an order other than that of the document have
\* been traced to one loop of five vertices or more
C28_Witness ==
    /\ OrientedDone
    /\ EmittedOnce(tri_inds)
    /\ SingleOutgoing(BoundaryList(tri_inds))
    /\ Len(tri_inds) = 3
    /\ tri_inds[1] > tri_inds[2]
    /\ Len(ret) = 1
    /\ Len(ret[1]) >= 5

\* C29: for non-degenerate triangles emitting no directed edge more than
\* once, no boundary edge joins a vertex to itself, no boundary edge has its
\* reverse among the boundary edges, and every returned loop has at least 3
\* vertices.
C29_LoopsHaveThreeVertices ==
    (/\ OrientedDone
     /\ EmittedOnce(tri_inds)
     /\ \A n \in DOMAIN tri_inds : Nondegenerate(TriAt(tri_inds[n]))) =>
        LET B == Range(BoundaryList(tri_inds))
        IN  /\ \A e \in B : e[1] # e[2] /\ Reverse(e) \notin B
            /\ \A k \in DOMAIN ret : Len(ret[k]) >= 3

\* two non-degenerate triangles sharing an edge in opposite winding have been
\* traced: the shared edge and its reverse are cancelled and the loop goes
\* round the four outer edges
C29_Witness ==
    /\ OrientedDone
    /\ EmittedOnce(tri_inds)
    /\ \A n \in DOMAIN tri_inds : Nondegenerate(TriAt(tri_inds[n]))
    /\ \E e \in Range(EmittedEdges(tri_inds)) :
           Contains(EmittedEdges(tri_inds), Reverse(e))
    /\ \E k \in DOMAIN ret : Len(ret[k]) >= 4

\* the list s without its n-th entry
Without(s, n) == SubSeq(s, 1, n - 1) \o SubSeq(s, n + 1, Len(s))

RECURSIVE Permutations(_)
\* the orders the entries of the list s can be given in
Permutations(s) ==
    IF s = <<>> THEN {<<>>}
    ELSE UNION {{<<s[n]>> \o q : q \in Permutations(Without(s, n))} :
                   n \in DOMAIN s}

\* the loop started k places later
Rotated(loop, k) ==
    [n \in DOMAIN loop |-> loop[((n + k - 1) % Len(loop)) + 1]]

\* the loop whatever vertex it is started at
Rotations(loop) == {Rotated(loop, k) : k \in 0..(Len(loop) - 1)}

\* an outcome with the order of its loops and the start of each forgotten
UpToRotation(o) ==
    [exc |-> o.exc, count |-> Len(o.ret),
     loops |-> {Rotations(o.ret[k]) : k \in DOMAIN o.ret}]

=============================================================================
